---- MODULE Spec2Model ----
(***************************************************************************)
(* A model of the congruence-class library modulo (src/src/modulo/modulo.py).*)
(*                                                                         *)
(* The library is a value type with no state of its own: the state of a    *)
(* program that uses it is the set of instances the program holds and the  *)
(* call it made last.  The model keeps the working set of one call: the    *)
(* operands of the last call and its result (the heap), the generator the  *)
(* last call created or advanced (gen), and the call itself (last).  The   *)
(* next call draws its operands from that working set, so calls chain to   *)
(* any depth while the state stays bounded.                                *)
(***************************************************************************)
EXTENDS Integers, Sequences, FiniteSets, TLC

VARIABLES heap, gen, last

vars == <<heap, gen, last>>

(***************************************************************************)
(* Bounds of the model.                                                    *)
(***************************************************************************)
\* Largest modulus handed to the constructor and kept in the working set of Spec.
MaxModulus == 4
\* Integer arguments (values, exponents, factors, indices) range over -MaxInt..MaxInt.
MaxInt == 3
\* Largest modulus of the operands the ring specification SpecRing draws.
MaxRing == 7
\* Largest modulus of the operands the intersection specification SpecCRT draws.
MaxCRT == 6

\* Exponents of ** range over -MaxExp..MaxExp.
MaxExp == 5

Ints == (0 - MaxInt)..MaxInt
Exponents == (0 - MaxExp)..MaxExp
ModArgs == (0 - 1)..MaxModulus

(***************************************************************************)
(* Python values.  Every value is a record of one shape: its type, the     *)
(* instance it is (type "modulo"), the integer it is (type "int", "bool"), *)
(* and the exception raised in its place (type "raise").  An optional      *)
(* attribute (residue) is a sequence of length at most one: <<>> is None.  *)
(***************************************************************************)
NoInst == [residue |-> <<>>, modulus |-> 0]

PyInt(n) == [type |-> "int", inst |-> NoInst, val |-> n, exc |-> ""]
PyBool(b) == [type |-> "bool", inst |-> NoInst, val |-> IF b THEN 1 ELSE 0, exc |-> ""]
PyNone == [type |-> "NoneType", inst |-> NoInst, val |-> 0, exc |-> ""]
\* A value that is neither an integer nor an instance ('a', 1.23).
PyStr == [type |-> "str", inst |-> NoInst, val |-> 0, exc |-> ""]
PyModulo(x) == [type |-> "modulo", inst |-> x, val |-> 0, exc |-> ""]
PyGenerator == [type |-> "generator", inst |-> NoInst, val |-> 0, exc |-> ""]
Raise(e) == [type |-> "raise", inst |-> NoInst, val |-> 0, exc |-> e]

IsInt(v) == v.type \in {"int", "bool"}
IsModulo(v) == v.type = "modulo"
Raised(v) == v.type = "raise"

\* self.residue is None / the residue of an element-mode instance.
IsSet(x) == x.residue = <<>>
IsElement(x) == x.residue # <<>>
Res(x) == x.residue[1]

(***************************************************************************)
(* The exceptions the library raises, by exception class and message.      *)
(***************************************************************************)
InvalidArity == "TypeError: must provide either a modulus or an integer and a modulus"
InvalidModulus == "ValueError: modulus must be a positive integer"
InvalidValue == "ValueError: residue must be an integer"
ModulusMismatch == "ValueError: congruence classes do not have the same modulus"
ExpectedElementOrInteger == "TypeError: expecting a congruence class or integer"
ExpectedCongruenceClass == "TypeError: expecting a congruence class"
CanOnlyNegate == "TypeError: can only negate a congruence class"
CanOnlyExponentiate == "TypeError: can only exponentiate a congruence class"
InvalidExponentType == "TypeError: exponent must be an integer or congruence class"
PowModulusMismatch == "ValueError: modulus does not match congruence class modulus"
NoInverse == "ValueError: congruence class has no inverse"
CanOnlyConvert == "TypeError: can only convert a congruence class to an integer"
RebindOnSet == "ValueError: modulus cannot be modified for a set of congruence classes"
RightMustBeInteger == "TypeError: right-hand argument must be an integer"
ExpectedSet == "ValueError: expecting a set of congruence classes as the second argument"
LeftMustBeInteger == "TypeError: left-hand argument must be an integer"
CanOnlyTransform == "ValueError: can only transform a congruence class"
InvalidArgumentType == "TypeError: second argument must be an integer"
NotDivisible == "ValueError: residue and modulus must both be divisible by the supplied integer"
IntersectionOnlyElements == "ValueError: intersection operation is only defined for two congruence classes"
InvalidIndexType == "TypeError: index must be an integer"
SymbolLeftNotPositive == "ValueError: left-hand argument must be a positive integer"
SymbolRightNotClass == "TypeError: right-hand argument must be a congruence class"
SymbolRightNotZero == "ValueError: right-hand argument must be a congruence class represented by 0"
StopIteration == "StopIteration"

(***************************************************************************)
(* Python's integer operators and the two imported number-theory routines. *)
(***************************************************************************)
\* a // b for b > 0: the floor of the quotient.
floordiv(a, b) == a \div b

\* The remainder that truncates toward zero (C's %), which Python's % is not.
truncmod(a, b) == IF a >= 0 THEN a % b ELSE 0 - ((0 - a) % b)

\* a % b for b > 0: the remainder of the floor division, always in 0..b-1.
pymod(a, b) == a - b * floordiv(a, b)

abs(a) == IF a < 0 THEN 0 - a ELSE a

RECURSIVE gcdloop(_, _)
gcdloop(a, b) == IF b = 0 THEN a ELSE gcdloop(b, pymod(a, b))

\* math.gcd: the greatest common divisor, never negative; gcd(0, 0) = 0.
gcd(a, b) == gcdloop(abs(a), abs(b))

RECURSIVE egcdloop(_, _, _, _, _, _)
egcdloop(b, n, x0, x1, y0, y1) ==
    IF n = 0 THEN <<b, x0, y0>>
    ELSE LET q == floordiv(b, n)
         IN egcdloop(n, pymod(b, n), x1, x0 - q * x1, y1, y0 - q * y1)

\* egcd.egcd(b, n): the triple (g, x, y) with g = gcd(b, n) = b*x + n*y, computed
\* by the iterative extended Euclidean algorithm.
egcd(b, n) == egcdloop(b, n, 1, 0, 0, 1)

RECURSIVE powloop(_, _, _, _)
powloop(result, base, exponent, m) ==
    IF exponent = 0 THEN result
    ELSE powloop(IF exponent % 2 = 1 THEN pymod(result * base, m) ELSE result,
                 pymod(base * base, m), exponent \div 2, m)

\* The built-in pow(base, exponent, m) for exponent >= 0 and m > 0: binary
\* exponentiation that reduces at every step; the result is 0 when m = 1.
pow(base, exponent, m) == IF m = 1 THEN 0 ELSE powloop(1, pymod(base, m), exponent, m)

(***************************************************************************)
(* modulo.__init__ and the coercion helper modulo._cc.                     *)
(***************************************************************************)
\* The constructor that stores its first argument as it is given.
InitUnreduced(args) ==
    IF Len(args) \notin {1, 2} THEN Raise(InvalidArity)
    ELSE IF ~IsInt(args[Len(args)]) \/ args[Len(args)].val <= 0 THEN Raise(InvalidModulus)
    ELSE IF Len(args) = 1 THEN PyModulo([residue |-> <<>>, modulus |-> args[1].val])
    ELSE IF ~IsInt(args[1]) THEN Raise(InvalidValue)
    ELSE PyModulo([residue |-> <<args[1].val>>, modulus |-> args[2].val])

\* The constructor that reduces with the truncating remainder.
InitTruncating(args) ==
    IF Len(args) \notin {1, 2} THEN Raise(InvalidArity)
    ELSE IF ~IsInt(args[Len(args)]) \/ args[Len(args)].val <= 0 THEN Raise(InvalidModulus)
    ELSE IF Len(args) = 1 THEN PyModulo([residue |-> <<>>, modulus |-> args[1].val])
    ELSE IF ~IsInt(args[1]) THEN Raise(InvalidValue)
    ELSE PyModulo([residue |-> <<truncmod(args[1].val, args[2].val)>>,
                   modulus |-> args[2].val])

\* The constructor that checks the value before the modulus and takes any number
\* of arguments but none.
InitValueFirst(args) ==
    IF Len(args) = 0 THEN Raise(InvalidArity)
    ELSE IF Len(args) >= 2 /\ ~IsInt(args[1]) THEN Raise(InvalidValue)
    ELSE IF ~IsInt(args[Len(args)]) \/ args[Len(args)].val <= 0 THEN Raise(InvalidModulus)
    ELSE IF Len(args) = 1 THEN PyModulo([residue |-> <<>>, modulus |-> args[1].val])
    ELSE PyModulo([residue |-> <<pymod(args[1].val, args[Len(args)].val)>>,
                   modulus |-> args[Len(args)].val])

\* modulo(*args): the instance constructed, or the exception raised.
__init__(args) ==
    IF Len(args) \notin {1, 2} THEN Raise(InvalidArity)
    ELSE IF ~IsInt(args[Len(args)]) \/ args[Len(args)].val <= 0 THEN Raise(InvalidModulus)
    ELSE IF Len(args) = 1 THEN PyModulo([residue |-> <<>>, modulus |-> args[1].val])
    ELSE IF ~IsInt(args[1]) THEN Raise(InvalidValue)
    ELSE PyModulo([residue |-> <<pymod(args[1].val, args[2].val)>>,
                   modulus |-> args[2].val])

\* modulo(value, modulus) and modulo(modulus) on integers.
modulo2(value, modulus) == __init__(<<PyInt(value), PyInt(modulus)>>)
modulo1(modulus) == __init__(<<PyInt(modulus)>>)

\* The coercion that compares the moduli before it looks at the mode.
CcModulusFirst(self, arg) ==
    IF IsModulo(arg) THEN
        IF self.modulus # arg.inst.modulus THEN Raise(ModulusMismatch)
        ELSE IF IsElement(arg.inst) THEN arg
        ELSE Raise(ExpectedElementOrInteger)
    ELSE IF IsInt(arg) THEN __init__(<<arg, PyInt(self.modulus)>>)
    ELSE Raise(ExpectedElementOrInteger)

\* self._cc(arg): arg as a congruence class of self's modulus.
_cc(self, arg) ==
    IF IsModulo(arg) THEN
        IF IsElement(arg.inst) THEN
            IF self.modulus = arg.inst.modulus THEN arg ELSE Raise(ModulusMismatch)
        ELSE Raise(ExpectedElementOrInteger)
    ELSE IF IsInt(arg) THEN __init__(<<arg, PyInt(self.modulus)>>)
    ELSE Raise(ExpectedElementOrInteger)

(***************************************************************************)
(* The arithmetic operators.  Each takes the instance it is called on and  *)
(* the Python values of its other arguments, and returns the value the     *)
(* call returns or the exception it raises.                                *)
(***************************************************************************)
\* Addition that forgets to reduce an integer operand against the modulus.
AddUncoerced(self, other) ==
    IF IsSet(self) THEN Raise(ExpectedElementOrInteger)
    ELSE LET o == _cc(self, other)
         IN  IF Raised(o) THEN o
             ELSE IF IsInt(other)
                  THEN PyModulo([residue |-> <<Res(self) + other.val>>, modulus |-> self.modulus])
                  ELSE modulo2(pymod(Res(self) + Res(o.inst), self.modulus), self.modulus)

\* Addition that drops the carry: the sum is capped at modulus - 1.
AddSaturating(self, other) ==
    IF IsSet(self) THEN Raise(ExpectedElementOrInteger)
    ELSE LET o == _cc(self, other)
         IN  IF Raised(o) THEN o
             ELSE LET sum == Res(self) + Res(o.inst)
                  IN modulo2(IF sum >= self.modulus THEN self.modulus - 1 ELSE sum, self.modulus)

__add__(self, other) ==
    IF IsSet(self) THEN Raise(ExpectedElementOrInteger)
    ELSE LET o == _cc(self, other)
         IN  IF Raised(o) THEN o
             ELSE modulo2(pymod(Res(self) + Res(o.inst), self.modulus), self.modulus)

\* Reflected addition that rejects a set as the other operators do.
RaddRejectsSet(self, other) ==
    IF IsSet(self) THEN Raise(ExpectedElementOrInteger)
    ELSE LET o == _cc(self, other)
         IN  IF Raised(o) THEN o
             ELSE modulo2(pymod(Res(self) + Res(o.inst), self.modulus), self.modulus)

__radd__(self, other) ==
    IF IsSet(self) THEN __init__(<<other, PyInt(self.modulus)>>)
    ELSE LET o == _cc(self, other)
         IN  IF Raised(o) THEN o
             ELSE modulo2(pymod(Res(self) + Res(o.inst), self.modulus), self.modulus)

__sub__(self, other) ==
    IF IsSet(self) THEN Raise(ExpectedElementOrInteger)
    ELSE LET o == _cc(self, other)
         IN  IF Raised(o) THEN o
             ELSE modulo2(pymod(Res(self) - Res(o.inst), self.modulus), self.modulus)

__rsub__(self, other) ==
    IF IsSet(self) THEN Raise(ExpectedElementOrInteger)
    ELSE LET o == _cc(self, other)
         IN  IF Raised(o) THEN o
             ELSE modulo2(pymod(Res(o.inst) - Res(self), self.modulus), self.modulus)

__pos__(self) ==
    IF IsSet(self) THEN Raise(ExpectedCongruenceClass)
    ELSE modulo2(Res(self), self.modulus)

__neg__(self) ==
    IF IsSet(self) THEN Raise(CanOnlyNegate)
    ELSE modulo2(pymod(0 - Res(self), self.modulus), self.modulus)

__mul__(self, other) ==
    IF IsSet(self) THEN Raise(ExpectedElementOrInteger)
    ELSE LET o == _cc(self, other)
         IN  IF Raised(o) THEN o
             ELSE modulo2(pymod(Res(self) * Res(o.inst), self.modulus), self.modulus)

__rmul__(self, other) ==
    IF IsSet(self) THEN Raise(ExpectedElementOrInteger)
    ELSE LET o == _cc(self, other)
         IN  IF Raised(o) THEN o
             ELSE modulo2(pymod(Res(self) * Res(o.inst), self.modulus), self.modulus)

\* Division that multiplies by the Bezout coefficient whatever the gcd is.
FloordivUnchecked(self, other) ==
    IF IsSet(self) THEN Raise(ExpectedElementOrInteger)
    ELSE LET o == _cc(self, other)
         IN  IF Raised(o) THEN o
             ELSE modulo2(pymod(Res(self) * egcd(Res(o.inst), self.modulus)[2],
                                self.modulus), self.modulus)

\* Division that multiplies by the divisor instead of its inverse.
FloordivByOperand(self, other) ==
    IF IsSet(self) THEN Raise(ExpectedElementOrInteger)
    ELSE LET o == _cc(self, other)
         IN  IF Raised(o) THEN o
             ELSE IF egcd(Res(o.inst), self.modulus)[1] > 1 THEN Raise(NoInverse)
             ELSE modulo2(pymod(Res(self) * Res(o.inst), self.modulus), self.modulus)

__floordiv__(self, other) ==
    IF IsSet(self) THEN Raise(ExpectedElementOrInteger)
    ELSE LET o == _cc(self, other)
         IN  IF Raised(o) THEN o
             ELSE IF egcd(Res(o.inst), self.modulus)[1] > 1 THEN Raise(NoInverse)
             ELSE modulo2(pymod(Res(self) * egcd(Res(o.inst), self.modulus)[2],
                                self.modulus), self.modulus)

\* int(x): the residue of an element-mode instance.
__int__(self) ==
    IF IsSet(self) THEN Raise(CanOnlyConvert) ELSE PyInt(Res(self))

\* The exponent pow() is called with, after the inversion step and int(other).
PowExponent(other) ==
    IF IsInt(other) THEN PyInt(abs(other.val)) ELSE __int__(other.inst)

\* The base pow() is called with: the residue, or its inverse for a negative
\* integer exponent.
PowBase(self, other) ==
    IF IsInt(other) /\ other.val < 0
    THEN pymod(egcd(Res(self), self.modulus)[2], self.modulus)
    ELSE Res(self)

\* Exponentiation that ignores the sign of the exponent.
PowNoInversion(self, other, modulus) ==
    IF IsSet(self) THEN Raise(CanOnlyExponentiate)
    ELSE IF ~(IsInt(other) \/ IsModulo(other)) THEN Raise(InvalidExponentType)
    ELSE IF modulus.type # "NoneType" /\ ~(IsInt(modulus) /\ modulus.val = self.modulus)
         THEN Raise(PowModulusMismatch)
    ELSE IF Raised(PowExponent(other)) THEN PowExponent(other)
    ELSE modulo2(pow(Res(self), PowExponent(other).val, self.modulus), self.modulus)

\* Exponentiation by repeated multiplication that stops one factor short.
PowOneShort(self, other, modulus) ==
    IF IsSet(self) THEN Raise(CanOnlyExponentiate)
    ELSE IF ~(IsInt(other) \/ IsModulo(other)) THEN Raise(InvalidExponentType)
    ELSE IF modulus.type # "NoneType" /\ ~(IsInt(modulus) /\ modulus.val = self.modulus)
         THEN Raise(PowModulusMismatch)
    ELSE IF IsInt(other) /\ other.val < 0 /\ egcd(Res(self), self.modulus)[1] > 1
         THEN Raise(NoInverse)
    ELSE IF Raised(PowExponent(other)) THEN PowExponent(other)
    ELSE modulo2(pow(PowBase(self, other),
                     IF PowExponent(other).val > 1 THEN PowExponent(other).val - 1
                     ELSE PowExponent(other).val,
                     self.modulus), self.modulus)

\* Exponentiation whose inversion step does not look at the gcd.
PowUnchecked(self, other, modulus) ==
    IF IsSet(self) THEN Raise(CanOnlyExponentiate)
    ELSE IF ~(IsInt(other) \/ IsModulo(other)) THEN Raise(InvalidExponentType)
    ELSE IF modulus.type # "NoneType" /\ ~(IsInt(modulus) /\ modulus.val = self.modulus)
         THEN Raise(PowModulusMismatch)
    ELSE IF Raised(PowExponent(other)) THEN PowExponent(other)
    ELSE modulo2(pow(PowBase(self, other), PowExponent(other).val, self.modulus),
                 self.modulus)

\* Exponentiation that coerces an exponent that is an instance as the arithmetic
\* operators coerce their right operand.
PowExponentCoerced(self, other, modulus) ==
    IF IsSet(self) THEN Raise(CanOnlyExponentiate)
    ELSE IF ~(IsInt(other) \/ IsModulo(other)) THEN Raise(InvalidExponentType)
    ELSE IF modulus.type # "NoneType" /\ ~(IsInt(modulus) /\ modulus.val = self.modulus)
         THEN Raise(PowModulusMismatch)
    ELSE IF IsInt(other) /\ other.val < 0 /\ egcd(Res(self), self.modulus)[1] > 1
         THEN Raise(NoInverse)
    ELSE IF IsModulo(other) /\ Raised(_cc(self, other)) THEN _cc(self, other)
    ELSE IF Raised(PowExponent(other)) THEN PowExponent(other)
    ELSE modulo2(pow(PowBase(self, other), PowExponent(other).val, self.modulus),
                 self.modulus)

\* Exponentiation that inverts for a negative exponent and forgets the exponent.
PowInverseOnce(self, other, modulus) ==
    IF IsSet(self) THEN Raise(CanOnlyExponentiate)
    ELSE IF ~(IsInt(other) \/ IsModulo(other)) THEN Raise(InvalidExponentType)
    ELSE IF modulus.type # "NoneType" /\ ~(IsInt(modulus) /\ modulus.val = self.modulus)
         THEN Raise(PowModulusMismatch)
    ELSE IF IsInt(other) /\ other.val < 0 /\ egcd(Res(self), self.modulus)[1] > 1
         THEN Raise(NoInverse)
    ELSE IF Raised(PowExponent(other)) THEN PowExponent(other)
    ELSE modulo2(pow(PowBase(self, other),
                     IF IsInt(other) /\ other.val < 0 THEN 1 ELSE PowExponent(other).val,
                     self.modulus), self.modulus)

\* pow(self, other, modulus), self ** other when modulus is None.
__pow__(self, other, modulus) ==
    IF IsSet(self) THEN Raise(CanOnlyExponentiate)
    ELSE IF ~(IsInt(other) \/ IsModulo(other)) THEN Raise(InvalidExponentType)
    ELSE IF modulus.type # "NoneType" /\ ~(IsInt(modulus) /\ modulus.val = self.modulus)
         THEN Raise(PowModulusMismatch)
    ELSE IF IsInt(other) /\ other.val < 0 /\ egcd(Res(self), self.modulus)[1] > 1
         THEN Raise(NoInverse)
    ELSE IF Raised(PowExponent(other)) THEN PowExponent(other)
    ELSE modulo2(pow(PowBase(self, other), PowExponent(other).val, self.modulus),
                 self.modulus)

__invert__(self) == __pow__(self, PyInt(0 - 1), PyNone)

\* The rebind that keeps the residue as it is under the new modulus.
ModUnreduced(self, other) ==
    IF IsSet(self) THEN Raise(RebindOnSet)
    ELSE IF ~IsInt(other) THEN Raise(RightMustBeInteger)
    ELSE IF other.val <= 0 THEN Raise(InvalidModulus)
    ELSE PyModulo([residue |-> <<Res(self)>>, modulus |-> other.val])

__mod__(self, other) ==
    IF IsSet(self) THEN Raise(RebindOnSet)
    ELSE IF ~IsInt(other) THEN Raise(RightMustBeInteger)
    ELSE __init__(<<PyInt(Res(self)), other>>)

__rmod__(self, other) ==
    IF IsElement(self) THEN Raise(ExpectedSet)
    ELSE IF ~IsInt(other) THEN Raise(LeftMustBeInteger)
    ELSE __init__(<<other, PyInt(self.modulus)>>)

\* The scaled transform that only checks that the factor divides the modulus.
TruedivModulusOnly(self, other) ==
    IF IsSet(self) THEN Raise(CanOnlyTransform)
    ELSE IF ~IsInt(other) THEN Raise(InvalidArgumentType)
    ELSE IF gcd(self.modulus, other.val) # other.val THEN Raise(NotDivisible)
    ELSE PyModulo([residue |-> <<floordiv(Res(self), other.val)>>,
                   modulus |-> floordiv(self.modulus, other.val)])

\* The scaled transform that takes a residue of 0 as not divisible.
TruedivNonzeroOnly(self, other) ==
    IF IsSet(self) THEN Raise(CanOnlyTransform)
    ELSE IF ~IsInt(other) THEN Raise(InvalidArgumentType)
    ELSE IF Res(self) = 0 \/ gcd(Res(self), other.val) # other.val
                          \/ gcd(self.modulus, other.val) # other.val
         THEN Raise(NotDivisible)
    ELSE modulo2(floordiv(Res(self), other.val), floordiv(self.modulus, other.val))

__truediv__(self, other) ==
    IF IsSet(self) THEN Raise(CanOnlyTransform)
    ELSE IF ~IsInt(other) THEN Raise(InvalidArgumentType)
    ELSE IF gcd(Res(self), other.val) # other.val \/ gcd(self.modulus, other.val) # other.val
         THEN Raise(NotDivisible)
    ELSE modulo2(floordiv(Res(self), other.val), floordiv(self.modulus, other.val))

(***************************************************************************)
(* modulo.__and__: the intersection of two congruence classes by the       *)
(* Chinese remainder theorem.                                              *)
(***************************************************************************)
\* The residue handed to the constructor, from the two inverses.
AndResidue(self, other, g, r, inv_other, inv_self) ==
    r + g * ( floordiv(Res(self) - r, g) * floordiv(other.modulus, g) * inv_other
            + floordiv(Res(other) - r, g) * floordiv(self.modulus, g) * inv_self )

\* The steps after the compatibility test, in the order the interpreter takes them.
AndCombine(self, other, g, modulus, r) ==
    LET m2m1 == modulo2(other.modulus, self.modulus)
        other_mod == IF Raised(m2m1) THEN m2m1 ELSE __truediv__(m2m1.inst, PyInt(g))
        m1m2 == modulo2(self.modulus, other.modulus)
        self_mod == IF Raised(m1m2) THEN m1m2 ELSE __truediv__(m1m2.inst, PyInt(g))
        inv_other == IF Raised(other_mod) THEN other_mod ELSE __invert__(other_mod.inst)
        int_other == IF Raised(inv_other) THEN inv_other ELSE __int__(inv_other.inst)
        inv_self == IF Raised(self_mod) THEN self_mod ELSE __invert__(self_mod.inst)
        int_self == IF Raised(inv_self) THEN inv_self ELSE __int__(inv_self.inst)
    IN  IF Raised(other_mod) THEN other_mod
        ELSE IF Raised(self_mod) THEN self_mod
        ELSE IF Raised(int_other) THEN int_other
        ELSE IF Raised(int_self) THEN int_self
        ELSE modulo2(AndResidue(self, other, g, r, int_other.val, int_self.val), modulus)

\* The intersection that combines the residues as if the moduli were coprime.
AndCoprimeOnly(self, other) ==
    IF ~IsModulo(other) THEN Raise(ExpectedCongruenceClass)
    ELSE IF IsSet(self) \/ IsSet(other.inst) THEN Raise(IntersectionOnlyElements)
    ELSE IF pymod(Res(other.inst), gcd(self.modulus, other.inst.modulus))
                # pymod(Res(self), gcd(self.modulus, other.inst.modulus))
         THEN PyNone
    ELSE AndCombine(self, other.inst, 1,
                    floordiv(self.modulus * other.inst.modulus,
                             gcd(self.modulus, other.inst.modulus)),
                    0)

\* The intersection that tests other's residue against self's residue as it is.
AndUnreducedTest(self, other) ==
    IF ~IsModulo(other) THEN Raise(ExpectedCongruenceClass)
    ELSE IF IsSet(self) \/ IsSet(other.inst) THEN Raise(IntersectionOnlyElements)
    ELSE LET g == gcd(self.modulus, other.inst.modulus)
             modulus == floordiv(self.modulus * other.inst.modulus, g)
             r == pymod(Res(self), g)
         IN  IF pymod(Res(other.inst), g) # Res(self) THEN PyNone
             ELSE AndCombine(self, other.inst, g, modulus, r)

\* The intersection that keeps the residue of the left operand.
AndLeftResidue(self, other) ==
    IF ~IsModulo(other) THEN Raise(ExpectedCongruenceClass)
    ELSE IF IsSet(self) \/ IsSet(other.inst) THEN Raise(IntersectionOnlyElements)
    ELSE LET g == gcd(self.modulus, other.inst.modulus)
             modulus == floordiv(self.modulus * other.inst.modulus, g)
             r == pymod(Res(self), g)
         IN  IF pymod(Res(other.inst), g) # r THEN PyNone
             ELSE modulo2(Res(self), modulus)

\* self & other: an element-mode instance, None, or an exception.
__and__(self, other) ==
    IF ~IsModulo(other) THEN Raise(ExpectedCongruenceClass)
    ELSE IF IsSet(self) \/ IsSet(other.inst) THEN Raise(IntersectionOnlyElements)
    ELSE LET g == gcd(self.modulus, other.inst.modulus)
             modulus == floordiv(self.modulus * other.inst.modulus, g)
             r == pymod(Res(self), g)
         IN  IF pymod(Res(other.inst), g) # r THEN PyNone
             ELSE AndCombine(self, other.inst, g, modulus, r)

(***************************************************************************)
(* Membership, indexing and the class used as a symbol.                    *)
(***************************************************************************)
CanOnlyCheckInSet == "TypeError: can only check if a congruence class is a member of a set of congruence classes"
CanOnlyCheckElement == "TypeError: can only check if a congruence class is a member"
CanOnlyCheckInteger == "TypeError: can only check if an integer is a member of a congruence class"

\* The membership test that reduces with the truncating remainder.
ContainsTruncating(self, other) ==
    IF IsSet(self) THEN
        IF ~IsModulo(other) THEN Raise(CanOnlyCheckInSet)
        ELSE IF IsSet(other.inst) THEN Raise(CanOnlyCheckElement)
        ELSE PyBool(self.modulus = other.inst.modulus)
    ELSE IF ~IsInt(other) THEN Raise(CanOnlyCheckInteger)
    ELSE PyBool(truncmod(other.val, self.modulus) = Res(self))

\* The membership test in which a set holds every element, of any modulus.
ContainsAnyModulus(self, other) ==
    IF IsSet(self) THEN
        IF ~IsModulo(other) THEN Raise(CanOnlyCheckInSet)
        ELSE IF IsSet(other.inst) THEN Raise(CanOnlyCheckElement)
        ELSE PyBool(TRUE)
    ELSE IF ~IsInt(other) THEN Raise(CanOnlyCheckInteger)
    ELSE PyBool(pymod(other.val, self.modulus) = Res(self))

\* other in self.
__contains__(self, other) ==
    IF IsSet(self) THEN
        IF ~IsModulo(other) THEN Raise(CanOnlyCheckInSet)
        ELSE IF IsSet(other.inst) THEN Raise(CanOnlyCheckElement)
        ELSE PyBool(self.modulus = other.inst.modulus)
    ELSE IF ~IsInt(other) THEN Raise(CanOnlyCheckInteger)
    ELSE PyBool(pymod(other.val, self.modulus) = Res(self))

ExpectedClassOrSet == "TypeError: expecting a congruence class or set of congruence classes"

\* The equality that compares the residues and not the moduli.
EqResidueOnly(self, other) ==
    IF ~IsModulo(other) THEN Raise(ExpectedClassOrSet)
    ELSE PyBool(\/ self.residue = other.inst.residue
                \/ (IsSet(self) /\ IsSet(other.inst)))

\* self == other.
__eq__(self, other) ==
    IF ~IsModulo(other) THEN Raise(ExpectedClassOrSet)
    ELSE PyBool(/\ self.modulus = other.inst.modulus
                /\ \/ self.residue = other.inst.residue
                   \/ (IsSet(self) /\ IsSet(other.inst)))

\* self != other: not self == other.
__ne__(self, other) ==
    LET e == __eq__(self, other)
    IN  IF Raised(e) THEN e ELSE PyBool(e.val = 0)

(***************************************************************************)
(* Ordering, the subset test and the size.                                 *)
(***************************************************************************)
SetsNotComparable == "ValueError: sets of congruence classes cannot be compared"
SubsetOnlyElements == "ValueError: subset relationship is only defined between congruence classes"

\* self._comparable(other): the exception raised, or None.
_comparable(self, other) ==
    IF ~IsModulo(other) THEN Raise(ExpectedCongruenceClass)
    ELSE IF IsSet(self) \/ IsSet(other.inst) THEN Raise(SetsNotComparable)
    ELSE IF self.modulus # other.inst.modulus THEN Raise(ModulusMismatch)
    ELSE PyNone

\* The ordering that tests the moduli before the modes.
LtModulusFirst(self, other) ==
    IF ~IsModulo(other) THEN Raise(ExpectedCongruenceClass)
    ELSE IF self.modulus # other.inst.modulus THEN Raise(ModulusMismatch)
    ELSE IF IsSet(self) \/ IsSet(other.inst) THEN Raise(SetsNotComparable)
    ELSE PyBool(Res(self) < Res(other.inst))

\* self < other.
__lt__(self, other) ==
    LET c == _comparable(self, other)
    IN  IF Raised(c) THEN c ELSE PyBool(Res(self) < Res(other.inst))

\* self <= other.
__le__(self, other) ==
    LET c == _comparable(self, other)
    IN  IF Raised(c) THEN c ELSE PyBool(Res(self) <= Res(other.inst))

\* self > other.
__gt__(self, other) ==
    LET c == _comparable(self, other)
    IN  IF Raised(c) THEN c ELSE PyBool(Res(self) > Res(other.inst))

\* self >= other.
__ge__(self, other) ==
    LET c == _comparable(self, other)
    IN  IF Raised(c) THEN c ELSE PyBool(Res(self) >= Res(other.inst))

\* The subset test that holds only between classes of one modulus.
IssubsetSameModulus(self, other) ==
    IF ~IsModulo(other) THEN Raise(ExpectedCongruenceClass)
    ELSE IF IsSet(self) \/ IsSet(other.inst) THEN Raise(SubsetOnlyElements)
    ELSE PyBool(self.modulus = other.inst.modulus /\ Res(self) = Res(other.inst))

\* self.issubset(other).
issubset(self, other) ==
    IF ~IsModulo(other) THEN Raise(ExpectedCongruenceClass)
    ELSE IF IsSet(self) \/ IsSet(other.inst) THEN Raise(SubsetOnlyElements)
    ELSE PyBool(pymod(Res(self), other.inst.modulus) = Res(other.inst))

\* len(self).
__len__(self) == PyInt(self.modulus)

\* The indexing that reduces the member of a class as it reduces the index of a set.
GetitemReduced(self, index) ==
    IF ~IsInt(index) THEN Raise(InvalidIndexType)
    ELSE IF IsSet(self) THEN __init__(<<index, PyInt(self.modulus)>>)
    ELSE PyInt(pymod(Res(self) + index.val * self.modulus, self.modulus))

\* self[index].
__getitem__(self, index) ==
    IF ~IsInt(index) THEN Raise(InvalidIndexType)
    ELSE IF IsSet(self) THEN __init__(<<index, PyInt(self.modulus)>>)
    ELSE PyInt(Res(self) + index.val * self.modulus)

\* other * Z: _symbol.__rmul__.
symbol__rmul__(other) ==
    IF ~IsInt(other) THEN Raise(LeftMustBeInteger)
    ELSE IF other.val <= 0 THEN Raise(SymbolLeftNotPositive)
    ELSE modulo2(0, other.val)

\* Z / other: _symbol.__truediv__.
symbol__truediv__(other) ==
    IF ~IsModulo(other) THEN Raise(SymbolRightNotClass)
    ELSE IF other.inst.residue # <<0>> THEN Raise(SymbolRightNotZero)
    ELSE modulo1(other.inst.modulus)

(***************************************************************************)
(* modulo.__iter__ is a generator function: calling it creates a generator *)
(* that has run none of its body; each next() runs it to the next yield.   *)
(* pc is the generator's position: "start" (created), "member" (suspended  *)
(* at the yield of the while loop), "range" (suspended at the yield of the *)
(* for loop), "done" (returned).  k counts the values yielded so far.      *)
(***************************************************************************)
NoGen == [pc |-> "none", self |-> NoInst, member |-> 0, c |-> 0, k |-> 0]

\* Largest number of values one generator is asked for.
MaxYield == 5

__iter__(self) == [pc |-> "start", self |-> self, member |-> 0, c |-> 0, k |-> 0]

\* The generator whose for loop runs once more than the modulus.
GenAfterInclusive(g) ==
    IF g.pc = "start" THEN
        IF IsElement(g.self)
        THEN [g EXCEPT !.pc = "member", !.member = Res(g.self), !.k = 1]
        ELSE IF 0 <= g.self.modulus
             THEN [g EXCEPT !.pc = "range", !.c = 0, !.k = 1]
             ELSE [g EXCEPT !.pc = "done"]
    ELSE IF g.pc = "member" THEN
        [g EXCEPT !.member = g.member + g.self.modulus, !.k = g.k + 1]
    ELSE IF g.pc = "range" THEN
        IF g.c + 1 <= g.self.modulus
        THEN [g EXCEPT !.c = g.c + 1, !.k = g.k + 1]
        ELSE [g EXCEPT !.pc = "done"]
    ELSE g

\* The generator that adds the modulus before it yields.
GenAfterIncrementFirst(g) ==
    IF g.pc = "start" THEN
        IF IsElement(g.self)
        THEN [g EXCEPT !.pc = "member", !.member = Res(g.self) + g.self.modulus, !.k = 1]
        ELSE IF 0 < g.self.modulus
             THEN [g EXCEPT !.pc = "range", !.c = 0, !.k = 1]
             ELSE [g EXCEPT !.pc = "done"]
    ELSE IF g.pc = "member" THEN
        [g EXCEPT !.member = g.member + g.self.modulus, !.k = g.k + 1]
    ELSE IF g.pc = "range" THEN
        IF g.c + 1 < g.self.modulus
        THEN [g EXCEPT !.c = g.c + 1, !.k = g.k + 1]
        ELSE [g EXCEPT !.pc = "done"]
    ELSE g

\* The generator after next(g).
GenAfter(g) ==
    IF g.pc = "start" THEN
        IF IsElement(g.self)
        THEN [g EXCEPT !.pc = "member", !.member = Res(g.self), !.k = 1]
        ELSE IF 0 < g.self.modulus
             THEN [g EXCEPT !.pc = "range", !.c = 0, !.k = 1]
             ELSE [g EXCEPT !.pc = "done"]
    ELSE IF g.pc = "member" THEN
        [g EXCEPT !.member = g.member + g.self.modulus, !.k = g.k + 1]
    ELSE IF g.pc = "range" THEN
        IF g.c + 1 < g.self.modulus
        THEN [g EXCEPT !.c = g.c + 1, !.k = g.k + 1]
        ELSE [g EXCEPT !.pc = "done"]
    ELSE g

\* The value next(g) returns, or StopIteration.
GenYield(g) ==
    IF GenAfter(g).pc = "member" THEN PyInt(GenAfter(g).member)
    ELSE IF GenAfter(g).pc = "range" THEN modulo2(GenAfter(g).c, g.self.modulus)
    ELSE Raise(StopIteration)

(***************************************************************************)
(* The state machine.  A call records itself in last and leaves in heap    *)
(* the instances it was given and the instance it returned.                *)
(***************************************************************************)
NoCall == [op |-> "", args |-> <<>>, ret |-> PyNone]

\* The instances among a sequence of values.
Insts(vals) ==
    LET sel == SelectSeq(vals, IsModulo) IN [n \in 1..Len(sel) |-> sel[n].inst]

\* The call whose result is written into its first operand and returned.
CallInPlace(op, keep, args, ret) ==
    LET r == ret
    IN  /\ last' = [op |-> op, args |-> args, ret |-> r]
        /\ heap' = keep \o Insts(IF IsModulo(r) /\ args # <<>> /\ IsModulo(args[1])
                                 THEN <<r>> \o Tail(args) \o <<r>>
                                 ELSE IF IsModulo(r) THEN Append(args, r) ELSE args)
        /\ gen' = NoGen

Call(op, keep, args, ret) ==
    LET r == ret
    IN  /\ last' = [op |-> op, args |-> args, ret |-> r]
        /\ heap' = keep \o Insts(IF IsModulo(r) THEN Append(args, r) ELSE args)
        /\ gen' = NoGen

\* The values a caller may pass where an integer or an instance is expected.
IntArgs == {PyInt(n) : n \in Ints}
Others == IntArgs \cup {PyStr} \cup {PyModulo(heap[j]) : j \in DOMAIN heap}
\* The argument lists of the constructor: none, one, two and three arguments.
ModulusArgs == {PyInt(n) : n \in ModArgs} \cup {PyStr}
ValueArgs == IntArgs \cup {PyStr}
ArgLists ==
    {<<>>} \cup {<<m>> : m \in ModulusArgs}
           \cup {<<v, m>> : v \in ValueArgs, m \in ModulusArgs}
           \cup {<<PyInt(0), v, m>> : v \in {PyInt(1), PyStr}, m \in {PyInt(0), PyInt(2)}}
\* What the caller keeps of the working set when it calls the constructor: the
\* instance it obtained last.
Kept == IF heap = <<>> THEN <<>> ELSE <<heap[Len(heap)]>>

Init ==
    /\ heap = <<>>
    /\ gen = NoGen
    /\ last = NoCall

New == \E args \in ArgLists :
    Call("modulo", Kept, args, __init__(args))

SymbolRmul == \E other \in ModulusArgs :
    Call("_symbol.__rmul__", Kept, <<other>>, symbol__rmul__(other))

SymbolTruediv == \E other \in Others :
    Call("_symbol.__truediv__", <<>>, <<other>>, symbol__truediv__(other))

Add == \E i \in DOMAIN heap, other \in Others :
    Call("__add__", <<>>, <<PyModulo(heap[i]), other>>, __add__(heap[i], other))

Radd == \E i \in DOMAIN heap, other \in ValueArgs :
    Call("__radd__", <<>>, <<PyModulo(heap[i]), other>>, __radd__(heap[i], other))

Sub == \E i \in DOMAIN heap, other \in Others :
    Call("__sub__", <<>>, <<PyModulo(heap[i]), other>>, __sub__(heap[i], other))

Rsub == \E i \in DOMAIN heap, other \in ValueArgs :
    Call("__rsub__", <<>>, <<PyModulo(heap[i]), other>>, __rsub__(heap[i], other))

Pos == \E i \in DOMAIN heap :
    Call("__pos__", <<>>, <<PyModulo(heap[i])>>, __pos__(heap[i]))

Neg == \E i \in DOMAIN heap :
    Call("__neg__", <<>>, <<PyModulo(heap[i])>>, __neg__(heap[i]))

Mul == \E i \in DOMAIN heap, other \in Others :
    Call("__mul__", <<>>, <<PyModulo(heap[i]), other>>, __mul__(heap[i], other))

Rmul == \E i \in DOMAIN heap, other \in ValueArgs :
    Call("__rmul__", <<>>, <<PyModulo(heap[i]), other>>, __rmul__(heap[i], other))

Floordiv == \E i \in DOMAIN heap, other \in Others :
    Call("__floordiv__", <<>>, <<PyModulo(heap[i]), other>>, __floordiv__(heap[i], other))

\* self ** other and pow(self, other).
Pow == \E i \in DOMAIN heap, other \in Others \cup {PyInt(n) : n \in Exponents} :
    Call("__pow__", <<>>, <<PyModulo(heap[i]), other, PyNone>>,
         __pow__(heap[i], other, PyNone))

\* pow(self, other, modulus).
Pow3 == \E i \in DOMAIN heap, other \in {PyInt(0 - 1), PyInt(2), PyStr},
           modulus \in {PyInt(n) : n \in 1..MaxModulus} :
    Call("__pow__", <<>>, <<PyModulo(heap[i]), other, modulus>>,
         __pow__(heap[i], other, modulus))

Invert == \E i \in DOMAIN heap :
    Call("__invert__", <<>>, <<PyModulo(heap[i])>>, __invert__(heap[i]))

Mod == \E i \in DOMAIN heap, other \in ModulusArgs :
    Call("__mod__", <<>>, <<PyModulo(heap[i]), other>>, __mod__(heap[i], other))

Rmod == \E i \in DOMAIN heap, other \in ValueArgs :
    Call("__rmod__", <<>>, <<PyModulo(heap[i]), other>>, __rmod__(heap[i], other))

Truediv == \E i \in DOMAIN heap, other \in ValueArgs :
    Call("__truediv__", <<>>, <<PyModulo(heap[i]), other>>, __truediv__(heap[i], other))

And == \E i \in DOMAIN heap, other \in Others :
    Call("__and__", <<>>, <<PyModulo(heap[i]), other>>, __and__(heap[i], other))

\* The intersection while the working set stays within the bound on the modulus.
AndBounded == And /\ \A n \in DOMAIN heap' : heap'[n].modulus <= MaxModulus

Contains == \E i \in DOMAIN heap, other \in Others :
    Call("__contains__", <<>>, <<PyModulo(heap[i]), other>>, __contains__(heap[i], other))

Getitem == \E i \in DOMAIN heap, index \in ValueArgs :
    Call("__getitem__", <<>>, <<PyModulo(heap[i]), index>>, __getitem__(heap[i], index))

ToInt == \E i \in DOMAIN heap :
    Call("__int__", <<>>, <<PyModulo(heap[i])>>, __int__(heap[i]))

\* iter(x): a new generator over x.
Iter == \E i \in DOMAIN heap :
    /\ last' = [op |-> "__iter__", args |-> <<PyModulo(heap[i])>>, ret |-> PyGenerator]
    /\ heap' = <<heap[i]>>
    /\ gen' = __iter__(heap[i])

\* next(g) on the generator of the working set.
NextItem ==
    /\ gen.pc # "none"
    /\ gen.k < MaxYield
    /\ last' = [op |-> "__next__", args |-> <<PyModulo(gen.self)>>, ret |-> GenYield(gen)]
    /\ heap' = Insts(<<PyModulo(gen.self), GenYield(gen)>>)
    /\ gen' = GenAfter(gen)

Next ==
    \/ New \/ SymbolRmul \/ SymbolTruediv
    \/ Add \/ Radd \/ Sub \/ Rsub \/ Pos \/ Neg \/ Mul \/ Rmul \/ Floordiv
    \/ Pow \/ Pow3 \/ Invert \/ Mod \/ Rmod \/ Truediv \/ AndBounded
    \/ Contains \/ Getitem \/ ToInt \/ Iter \/ NextItem

Spec == Init /\ [][Next]_vars

(***************************************************************************)
(* The ring operators on operands of one modulus.  The initial states are  *)
(* the states after modulo(r1, m) and modulo(r2, m) were constructed.      *)
(***************************************************************************)
Element(r, m) == [residue |-> <<r>>, modulus |-> m]
Elements(m) == {Element(r, m) : r \in 0..(m - 1)}

InitRing ==
    \E m \in 1..MaxRing : \E r1 \in 0..(m - 1), r2 \in 0..(m - 1) :
        /\ heap = <<modulo2(r1, m).inst, modulo2(r2, m).inst>>
        /\ gen = NoGen
        /\ last = [op |-> "modulo", args |-> <<PyInt(r2), PyInt(m)>>, ret |-> modulo2(r2, m)]

NextRing ==
    \/ Add \/ Sub \/ Pos \/ Neg \/ Mul \/ Floordiv \/ Pow \/ Invert

SpecRing == InitRing /\ [][NextRing]_vars

(***************************************************************************)
(* The intersection of two classes of any two moduli.  The initial states  *)
(* are the states after modulo(r1, m1) and modulo(r2, m2) were constructed.*)
(***************************************************************************)
InitCRT ==
    \E m1 \in 1..MaxCRT, m2 \in 1..MaxCRT : \E r1 \in 0..(m1 - 1), r2 \in 0..(m2 - 1) :
        /\ heap = <<modulo2(r1, m1).inst, modulo2(r2, m2).inst>>
        /\ gen = NoGen
        /\ last = [op |-> "modulo", args |-> <<PyInt(r2), PyInt(m2)>>, ret |-> modulo2(r2, m2)]

NextCRT ==
    \/ And \/ Contains

SpecCRT == InitCRT /\ [][NextCRT]_vars

(***************************************************************************)
(* Equality, ordering, the subset test, membership and the size, on any    *)
(* two instances.  The initial states are the states after two instances,  *)
(* each a congruence class or a set of congruence classes, were            *)
(* constructed.                                                            *)
(***************************************************************************)
\* Largest modulus of the instances compared.
MaxCompare == 4

Eq == \E i \in DOMAIN heap, other \in Others :
    Call("__eq__", <<>>, <<PyModulo(heap[i]), other>>, __eq__(heap[i], other))

Ne == \E i \in DOMAIN heap, other \in Others :
    Call("__ne__", <<>>, <<PyModulo(heap[i]), other>>, __ne__(heap[i], other))

Lt == \E i \in DOMAIN heap, other \in Others :
    Call("__lt__", <<>>, <<PyModulo(heap[i]), other>>, __lt__(heap[i], other))

Le == \E i \in DOMAIN heap, other \in Others :
    Call("__le__", <<>>, <<PyModulo(heap[i]), other>>, __le__(heap[i], other))

Gt == \E i \in DOMAIN heap, other \in Others :
    Call("__gt__", <<>>, <<PyModulo(heap[i]), other>>, __gt__(heap[i], other))

Ge == \E i \in DOMAIN heap, other \in Others :
    Call("__ge__", <<>>, <<PyModulo(heap[i]), other>>, __ge__(heap[i], other))

Issubset == \E i \in DOMAIN heap, other \in Others :
    Call("issubset", <<>>, <<PyModulo(heap[i]), other>>, issubset(heap[i], other))

Length == \E i \in DOMAIN heap :
    Call("__len__", <<>>, <<PyModulo(heap[i])>>, __len__(heap[i]))

\* The instances of one modulus: its congruence classes and the set of them.
Instances(m) == Elements(m) \cup {modulo1(m).inst}

InitCompare ==
    \E m1 \in 1..MaxCompare, m2 \in 1..MaxCompare :
        \E x \in Instances(m1), y \in Instances(m2) :
            /\ heap = <<x, y>>
            /\ gen = NoGen
            /\ last = [op |-> "modulo",
                       args |-> IF IsSet(y) THEN <<PyInt(m2)>> ELSE <<PyInt(Res(y)), PyInt(m2)>>,
                       ret |-> PyModulo(y)]

NextCompare ==
    \/ Eq \/ Ne \/ Lt \/ Le \/ Gt \/ Ge \/ Issubset \/ Contains \/ Length

SpecCompare == InitCompare /\ [][NextCompare]_vars

(***************************************************************************)
(* The session with every operation: the operators, indexing and iteration *)
(* of Spec together with the comparisons, the subset test and the size.    *)
(***************************************************************************)
NextAll ==
    \/ New \/ SymbolRmul \/ SymbolTruediv
    \/ Add \/ Radd \/ Sub \/ Rsub \/ Pos \/ Neg \/ Mul \/ Rmul \/ Floordiv
    \/ Pow \/ Pow3 \/ Invert \/ Mod \/ Rmod \/ Truediv \/ AndBounded
    \/ Contains \/ Getitem \/ ToInt \/ Iter \/ NextItem
    \/ Eq \/ Ne \/ Lt \/ Le \/ Gt \/ Ge \/ Issubset \/ Length

SpecAll == Init /\ [][NextAll]_vars

(***************************************************************************)
(* Properties.  The arithmetic they are stated with is that of TLA+ (%, ^  *)
(* and divisibility by search), not the operators of the model.            *)
(***************************************************************************)
Divides(d, n) == \E q \in (0 - abs(n))..abs(n) : n = q * d
Coprime(r, m) == \A d \in 2..m : ~(Divides(d, r) /\ Divides(d, m))
\* The greatest common divisor and least common multiple of two moduli, by search.
Gcd(m1, m2) == CHOOSE d \in 1..m1 :
    /\ Divides(d, m1) /\ Divides(d, m2)
    /\ \A e \in 1..m1 : (Divides(e, m1) /\ Divides(e, m2)) => e <= d
Lcm(m1, m2) == CHOOSE n \in 1..(m1 * m2) :
    /\ Divides(m1, n) /\ Divides(m2, n)
    /\ \A e \in 1..(m1 * m2) : (Divides(m1, e) /\ Divides(m2, e)) => n <= e

ValidInstance(x) ==
    /\ x.modulus > 0
    /\ Len(x.residue) <= 1
    /\ IsElement(x) => (0 <= Res(x) /\ Res(x) < x.modulus)

\* The operands of the last call, when it was made on an instance.
Self == last.args[1].inst
Other == last.args[2]
SelfIsElement == Len(last.args) >= 1 /\ IsModulo(last.args[1]) /\ IsElement(Self)
\* The right operand of the last call is an element of self's modulus.
OtherIsPeer ==
    /\ Len(last.args) >= 2 /\ IsModulo(Other)
    /\ IsElement(Other.inst) /\ Other.inst.modulus = Self.modulus
\* The last call returned the element-mode instance (r mod m, m).
Returned(r, m) == last.ret = PyModulo(Element(r % m, m))
IsTrue(v) == v = PyBool(TRUE)

\* C1: after any sequence of constructor calls and operators, every instance that
\* exists (the operands kept, the instance returned, the instance a generator
\* iterates) has a modulus > 0 and either no residue or a residue in 0..modulus-1.
C1_InstancesValid ==
    /\ \A i \in DOMAIN heap : ValidInstance(heap[i])
    /\ IsModulo(last.ret) => ValidInstance(last.ret.inst)
    /\ gen.pc # "none" => ValidInstance(gen.self)

\* An instance returned by an operator applied to the result of another call: the
\* scaled transform has halved a class, and at least two instances are held.
C1_Witness ==
    /\ last.op = "__truediv__" /\ IsModulo(last.ret)
    /\ Self.modulus = 2 * last.ret.inst.modulus
    /\ Res(Self) > Res(last.ret.inst)
    /\ Len(heap) = 2

\* C2: for every integer v and positive integer m, modulo(v, m) returns an
\* element-mode instance of modulus m whose residue r is in 0..m-1 with v - r a
\* multiple of m; modulo(m) returns a set-mode instance of modulus m.
C2_Normalization ==
    last.op = "modulo" =>
        /\ (Len(last.args) = 2 /\ last.args[1].type = "int"
               /\ last.args[2].type = "int" /\ last.args[2].val > 0) =>
              /\ IsModulo(last.ret) /\ IsElement(last.ret.inst)
              /\ last.ret.inst.modulus = last.args[2].val
              /\ 0 <= Res(last.ret.inst) /\ Res(last.ret.inst) < last.args[2].val
              /\ Divides(last.args[2].val, last.args[1].val - Res(last.ret.inst))
        /\ (Len(last.args) = 1 /\ last.args[1].type = "int" /\ last.args[1].val > 0) =>
              /\ IsModulo(last.ret) /\ IsSet(last.ret.inst)
              /\ last.ret.inst.modulus = last.args[1].val

\* A negative value was normalised to a positive residue of a modulus > 2.
C2_Witness ==
    /\ last.op = "modulo" /\ Len(last.args) = 2
    /\ last.args[1].type = "int" /\ last.args[1].val < 0 - 1
    /\ IsModulo(last.ret) /\ last.ret.inst.modulus > 2
    /\ Res(last.ret.inst) > 0
    /\ Res(last.ret.inst) + 1 < last.ret.inst.modulus

\* C3: the constructor raises InvalidArity when given no or more than two
\* arguments; otherwise InvalidModulus when its last argument is not an integer
\* or is <= 0; otherwise InvalidValue when a first of two arguments is not an
\* integer (the checks in the order listed).  A constructor call that raises
\* returns no instance: the caller holds what it held before.
C3_ConstructorErrors ==
    last.op = "modulo" =>
        LET n == Len(last.args)
            badModulus == last.args[n].type # "int" \/ last.args[n].val <= 0
        IN  /\ n \notin {1, 2} => last.ret = Raise(InvalidArity)
            /\ (n \in {1, 2} /\ badModulus) => last.ret = Raise(InvalidModulus)
            /\ (n = 2 /\ ~badModulus /\ last.args[1].type # "int") =>
                   last.ret = Raise(InvalidValue)
            /\ Raised(last.ret) => (~IsModulo(last.ret) /\ Len(heap) <= 1)
            /\ (n \in {1, 2} /\ ~badModulus /\ (n = 2 => last.args[1].type = "int")) =>
                   ~Raised(last.ret)

\* A constructor call with a valid modulus and a value that is no integer raised
\* InvalidValue while an earlier instance was held.
C3_Witness ==
    /\ last.op = "modulo" /\ Len(last.args) = 2
    /\ last.args[1].type = "str" /\ last.args[2].type = "int" /\ last.args[2].val > 0
    /\ last.ret = Raise(InvalidValue)
    /\ Len(heap) = 1

\* The integer the right operand of the last call stands for: the residue of an
\* element, or a raw integer as it is.
OtherInt == IF IsModulo(Other) THEN Res(Other.inst) ELSE Other.val
\* The right operand is an element of self's modulus or a raw integer.
OtherIsPeerOrInt == Len(last.args) >= 2 /\ (OtherIsPeer \/ Other.type = "int")

\* C4: for an element a = (ra, m) and b an element (rb, m) or a raw integer rb,
\* a + b, a - b and a * b return ((ra + rb) mod m, m), ((ra - rb) mod m, m) and
\* ((ra * rb) mod m, m); -a returns ((-ra) mod m, m) and +a returns (ra, m).
C4_Arithmetic ==
    SelfIsElement =>
        /\ (last.op = "__add__" /\ OtherIsPeerOrInt) =>
               Returned(Res(Self) + OtherInt, Self.modulus)
        /\ (last.op = "__sub__" /\ OtherIsPeerOrInt) =>
               Returned(Res(Self) - OtherInt, Self.modulus)
        /\ (last.op = "__mul__" /\ OtherIsPeerOrInt) =>
               Returned(Res(Self) * OtherInt, Self.modulus)
        /\ last.op = "__neg__" => Returned(0 - Res(Self), Self.modulus)
        /\ last.op = "__pos__" => last.ret = PyModulo(Self)

\* A raw integer larger than the residue was subtracted: the difference wrapped.
C4_Witness ==
    /\ SelfIsElement /\ last.op = "__sub__"
    /\ Other.type = "int" /\ Other.val > Res(Self)
    /\ Self.modulus > 2
    /\ IsModulo(last.ret) /\ Res(last.ret.inst) > Res(Self)

\* C5: for elements a, b, c of one modulus m, a + b == b + a,
\* (a + b) + c == a + (b + c), and a + (-a) == (0, m).
C5_AdditiveGroup ==
    SelfIsElement =>
        /\ (last.op = "__add__" /\ OtherIsPeer) =>
            /\ IsModulo(last.ret)
            /\ IsTrue(__eq__(last.ret.inst, __add__(Other.inst, PyModulo(Self))))
            /\ \A c \in Elements(Self.modulus) :
                   IsTrue(__eq__(__add__(last.ret.inst, PyModulo(c)).inst,
                                 __add__(Self, __add__(Other.inst, PyModulo(c)))))
        /\ last.op = "__neg__" =>
            /\ IsModulo(last.ret)
            /\ IsTrue(__eq__(__add__(Self, last.ret).inst,
                             PyModulo(Element(0, Self.modulus))))

\* Two different elements were added and their sum wrapped around the modulus.
C5_Witness ==
    /\ SelfIsElement /\ last.op = "__add__" /\ OtherIsPeer
    /\ Res(Self) # Res(Other.inst)
    /\ Res(Self) + Res(Other.inst) > Self.modulus
    /\ IsModulo(last.ret)

\* a // a: the right operand of the last call is the left operand.
DividedBySelf == last.op = "__floordiv__" /\ Other = last.args[1]
\* a ** (-1).
RaisedToMinusOne ==
    last.op = "__pow__" /\ Other = PyInt(0 - 1) /\ last.args[3] = PyNone

\* C6: for an element a = (r, m) with gcd(r, m) = 1 (m = 1 included),
\* a * ~a == (1 mod m, m) and a // a == (1 mod m, m).
C6_InverseRoundTrip ==
    (SelfIsElement /\ Coprime(Res(Self), Self.modulus)) =>
        /\ last.op = "__invert__" =>
            /\ IsModulo(last.ret)
            /\ IsTrue(__eq__(__mul__(Self, last.ret).inst,
                             PyModulo(Element(1 % Self.modulus, Self.modulus))))
        /\ DividedBySelf =>
            /\ IsModulo(last.ret)
            /\ IsTrue(__eq__(last.ret.inst,
                             PyModulo(Element(1 % Self.modulus, Self.modulus))))

\* An element that is not its own inverse was inverted.
C6_Witness ==
    /\ SelfIsElement /\ last.op = "__invert__"
    /\ IsModulo(last.ret)
    /\ Res(last.ret.inst) # Res(Self)
    /\ Res(last.ret.inst) > 1 /\ Res(Self) > 1

\* C7: for an element a = (r, m) with gcd(r, m) > 1 (r = 0 with m > 1 included),
\* ~a, a ** (-1) and a // a each raise NoInverse.
C7_NoInverse ==
    (SelfIsElement /\ ~Coprime(Res(Self), Self.modulus)) =>
        ((last.op = "__invert__" \/ RaisedToMinusOne \/ DividedBySelf) =>
            last.ret = Raise(NoInverse))

\* A zero divisor other than 0 was divided by itself.
C7_Witness ==
    /\ SelfIsElement /\ DividedBySelf
    /\ Res(Self) > 1 /\ ~Coprime(Res(Self), Self.modulus)
    /\ last.ret = Raise(NoInverse)

\* r to the power e by repeated multiplication, with r^0 = 1 for every r.
RECURSIVE Power(_, _)
Power(r, e) == IF e = 0 THEN 1 ELSE r * Power(r, e - 1)

\* C8: for an element a = (r, m) and an integer e >= 0, a ** e is the element
\* (r^e mod m, m); a ** 0 is (1 mod m, m): (1, m) for m > 1 and (0, 1) for m = 1.
C8_Power ==
    (SelfIsElement /\ last.op = "__pow__" /\ Other.type = "int" /\ Other.val >= 0
        /\ last.args[3] = PyNone) =>
        /\ Returned(Power(Res(Self), Other.val), Self.modulus)
        /\ Other.val = 0 =>
               last.ret = PyModulo(Element(IF Self.modulus = 1 THEN 0 ELSE 1, Self.modulus))

\* A residue > 1 was raised to an odd exponent > 2 and the power exceeded the modulus.
C8_Witness ==
    /\ SelfIsElement /\ last.op = "__pow__" /\ Other.type = "int"
    /\ Other.val > 2 /\ Other.val % 2 = 1
    /\ Res(Self) > 1 /\ Self.modulus > 4
    /\ IsModulo(last.ret) /\ Res(last.ret.inst) > 1

\* C9: for an element a = (r, m) with gcd(r, m) = 1 and an integer e < 0,
\* a ** e equals (~a) ** |e|, and (a ** e) * (a ** |e|) == (1 mod m, m).
C9_NegativePower ==
    (SelfIsElement /\ Coprime(Res(Self), Self.modulus) /\ last.op = "__pow__"
        /\ Other.type = "int" /\ Other.val < 0 /\ last.args[3] = PyNone) =>
        /\ IsModulo(last.ret)
        /\ IsTrue(__eq__(last.ret.inst,
                         __pow__(__invert__(Self).inst, PyInt(0 - Other.val), PyNone)))
        /\ IsTrue(__eq__(__mul__(last.ret.inst,
                                 __pow__(Self, PyInt(0 - Other.val), PyNone)).inst,
                         PyModulo(Element(1 % Self.modulus, Self.modulus))))

\* An element that is not its own inverse was raised to an exponent < -1.
C9_Witness ==
    /\ SelfIsElement /\ last.op = "__pow__" /\ Other.type = "int" /\ Other.val < 0 - 1
    /\ IsModulo(last.ret)
    /\ Res(last.ret.inst) > 1 /\ Res(last.ret.inst) # Res(Self)
    /\ IsModulo(__invert__(Self)) /\ Res(__invert__(Self).inst) # Res(Self)

\* The integers membership is tested on: a period of every modulus the
\* intersection can have, on both sides of 0.
Members == (0 - MaxCRT * MaxCRT)..(MaxCRT * MaxCRT)
\* The last call was a & b on two elements.
Intersected ==
    /\ last.op = "__and__" /\ SelfIsElement
    /\ IsModulo(Other) /\ IsElement(Other.inst)

\* C10: for elements a = (r1, m1) and b = (r2, m2) with r1 mod g = r2 mod g,
\* g = gcd(m1, m2), a & b is an element of modulus m1*m2/g whose members are the
\* integers that are members of both a and b: its residue x has x mod m1 = r1 and
\* x mod m2 = r2.
C10_Intersection ==
    (Intersected /\ Res(Self) % Gcd(Self.modulus, Other.inst.modulus)
                      = Res(Other.inst) % Gcd(Self.modulus, Other.inst.modulus)) =>
        /\ IsModulo(last.ret) /\ IsElement(last.ret.inst)
        /\ last.ret.inst.modulus = Lcm(Self.modulus, Other.inst.modulus)
        /\ last.ret.inst.modulus * Gcd(Self.modulus, Other.inst.modulus)
               = Self.modulus * Other.inst.modulus
        /\ Res(last.ret.inst) % Self.modulus = Res(Self)
        /\ Res(last.ret.inst) % Other.inst.modulus = Res(Other.inst)
        /\ \A n \in Members :
               IsTrue(__contains__(last.ret.inst, PyInt(n)))
                   <=> (IsTrue(__contains__(Self, PyInt(n)))
                           /\ IsTrue(__contains__(Other.inst, PyInt(n))))

\* Two classes whose moduli share a factor and do not divide one another were
\* intersected, and the residue of the result is larger than both moduli.
C10_Witness ==
    /\ Intersected /\ IsModulo(last.ret)
    /\ Gcd(Self.modulus, Other.inst.modulus) > 1
    /\ Gcd(Self.modulus, Other.inst.modulus) < Self.modulus
    /\ Gcd(Self.modulus, Other.inst.modulus) < Other.inst.modulus
    /\ Res(last.ret.inst) > Self.modulus /\ Res(last.ret.inst) > Other.inst.modulus

\* C11: for elements a = (r1, m1) and b = (r2, m2), a & b returns None (a value,
\* no exception) if and only if r1 mod g # r2 mod g with g = gcd(m1, m2), and
\* when None is returned no integer is a member of both a and b.
C11_NoIntersection ==
    Intersected =>
        /\ ~Raised(last.ret)
        /\ last.ret = PyNone
               <=> Res(Self) % Gcd(Self.modulus, Other.inst.modulus)
                       # Res(Other.inst) % Gcd(Self.modulus, Other.inst.modulus)
        /\ last.ret = PyNone =>
               \A n \in Members :
                   ~(n % Self.modulus = Res(Self) /\ n % Other.inst.modulus = Res(Other.inst))

\* Two classes of different moduli that share a factor, neither dividing the
\* other, were found disjoint.
C11_Witness ==
    /\ Intersected /\ last.ret = PyNone
    /\ Gcd(Self.modulus, Other.inst.modulus) > 1
    /\ Gcd(Self.modulus, Other.inst.modulus) < Self.modulus
    /\ Gcd(Self.modulus, Other.inst.modulus) < Other.inst.modulus
    /\ Res(Self) > 1 /\ Res(Other.inst) > 1

\* The integers the classes compared are enumerated on: more than a period of
\* every common multiple of two moduli, on both sides of 0.
ComparedMembers == (0 - MaxCompare * MaxCompare)..(MaxCompare * MaxCompare)
\* The last call was made on an element with an element as its right operand.
BothElements ==
    /\ SelfIsElement /\ Len(last.args) >= 2
    /\ IsModulo(Other) /\ IsElement(Other.inst)

\* C12: for elements a and b, a.issubset(b) returns True exactly when every
\* integer that is a member of a is a member of b, whatever the two moduli.
C12_SubsetIffContained ==
    (last.op = "issubset" /\ BothElements) =>
        last.ret = PyBool(\A n \in ComparedMembers :
                              n % Self.modulus = Res(Self)
                                  => n % Other.inst.modulus = Res(Other.inst))

\* The last call compared two instances.
BothInstances ==
    /\ Len(last.args) >= 2 /\ IsModulo(last.args[1]) /\ IsModulo(Other)
\* The two instances have one modulus and are both sets or both elements of
\* one residue.
SameClass ==
    /\ Self.modulus = Other.inst.modulus
    /\ \/ IsSet(Self) /\ IsSet(Other.inst)
       \/ IsElement(Self) /\ IsElement(Other.inst) /\ Res(Self) = Res(Other.inst)

\* C13: x == y is True if and only if the moduli are equal and both are sets or
\* both are elements of equal residues; an element and a set are never equal;
\* x != y is the negation of x == y.
C13_Equality ==
    BothInstances =>
        /\ last.op = "__eq__" => last.ret = PyBool(SameClass)
        /\ last.op = "__ne__" => last.ret = PyBool(~SameClass)
        /\ (last.op = "__eq__" /\ IsSet(Self) # IsSet(Other.inst)) => last.ret = PyBool(FALSE)
        /\ (last.op = "__ne__" /\ IsSet(Self) # IsSet(Other.inst)) => last.ret = PyBool(TRUE)

\* An element of residue > 0 was compared with the set of its own modulus, and
\* they were found not equal.
C13_Witness ==
    /\ BothInstances /\ last.op = "__eq__"
    /\ IsElement(Self) /\ Res(Self) > 0 /\ IsSet(Other.inst)
    /\ Self.modulus = Other.inst.modulus
    /\ last.ret = PyBool(FALSE)

\* The last call was an ordering comparison made on an instance.
Ordered ==
    /\ last.op \in {"__lt__", "__le__", "__gt__", "__ge__"}
    /\ Len(last.args) = 2 /\ IsModulo(last.args[1])

\* C14: for two elements of one modulus a < b, a <= b, a > b and a >= b return the
\* comparison of the residues; a comparison raises TypeError('expecting a
\* congruence class') when the right side is no instance, ValueError('sets of
\* congruence classes cannot be compared') when either side is a set (the moduli
\* equal or not), and ValueError('congruence classes do not have the same
\* modulus') when both are elements of different moduli.
C14_Ordering ==
    Ordered =>
        /\ ~IsModulo(Other) => last.ret = Raise(ExpectedCongruenceClass)
        /\ (IsModulo(Other) /\ (IsSet(Self) \/ IsSet(Other.inst))) =>
               last.ret = Raise(SetsNotComparable)
        /\ (BothElements /\ Self.modulus # Other.inst.modulus) =>
               last.ret = Raise(ModulusMismatch)
        /\ (BothElements /\ Self.modulus = Other.inst.modulus) =>
               /\ last.op = "__lt__" => last.ret = PyBool(Res(Self) < Res(Other.inst))
               /\ last.op = "__le__" => last.ret = PyBool(Res(Self) <= Res(Other.inst))
               /\ last.op = "__gt__" => last.ret = PyBool(Res(Self) > Res(Other.inst))
               /\ last.op = "__ge__" => last.ret = PyBool(Res(Self) >= Res(Other.inst))

\* An element was compared with a set of another modulus: the sets error was
\* raised, not the modulus error.
C14_Witness ==
    /\ Ordered /\ last.op = "__lt__"
    /\ IsElement(Self) /\ IsModulo(Other) /\ IsSet(Other.inst)
    /\ Self.modulus # Other.inst.modulus
    /\ last.ret = Raise(SetsNotComparable)

\* The last call was a membership test made on an instance.
Tested == last.op = "__contains__" /\ Len(last.args) = 2 /\ IsModulo(last.args[1])
\* The multiples k of the modulus that membership is tried on.
Multiples == (0 - MaxInt)..MaxInt

\* C15: for an element a = (r, m) and an integer n, n in a is True iff
\* n mod m = r; for every integer k, negative included, r + k*m in a is True and
\* r + k*m + 1 in a is True iff m = 1.
C15_Membership ==
    (Tested /\ SelfIsElement) =>
        /\ Other.type = "int" => last.ret = PyBool(Other.val % Self.modulus = Res(Self))
        /\ \A k \in Multiples :
               /\ IsTrue(__contains__(Self, PyInt(Res(Self) + k * Self.modulus)))
               /\ IsTrue(__contains__(Self, PyInt(Res(Self) + k * Self.modulus + 1)))
                      <=> Self.modulus = 1

\* A negative integer was found to be a member of a class of residue > 0.
C15_Witness ==
    /\ Tested /\ SelfIsElement /\ Other.type = "int"
    /\ Other.val < 0 /\ Res(Self) > 0 /\ Self.modulus > 2
    /\ last.ret = PyBool(TRUE)

\* C16: for a set s, e in s with an element e is True iff the moduli are equal,
\* whatever the residue; n in s with an integer n raises, s2 in s with a set s2
\* raises, and e in a with two elements raises: none returns a boolean.
C16_SetMembership ==
    Tested =>
        /\ (IsSet(Self) /\ IsModulo(Other) /\ IsElement(Other.inst)) =>
               last.ret = PyBool(Self.modulus = Other.inst.modulus)
        /\ (IsSet(Self) /\ Other.type = "int") =>
               (Raised(last.ret) /\ last.ret.type # "bool")
        /\ (IsSet(Self) /\ IsModulo(Other) /\ IsSet(Other.inst)) =>
               (Raised(last.ret) /\ last.ret.type # "bool")
        /\ BothElements => (Raised(last.ret) /\ last.ret.type # "bool")

\* An element of residue > 0 was tested in the set of another modulus and found
\* not to be a member.
C16_Witness ==
    /\ Tested /\ IsSet(Self)
    /\ IsModulo(Other) /\ IsElement(Other.inst) /\ Res(Other.inst) > 0
    /\ Self.modulus # Other.inst.modulus
    /\ last.ret = PyBool(FALSE)

\* The step is a next() on the live generator.
Resumed == last'.op = "__next__" /\ gen.pc # "none"

\* C17: iterating a set of modulus m yields the elements (0, m), (1, m), ...,
\* (m-1, m) in that order and then stops, after exactly m = len values; an
\* iteration started on the same instance, at any point, starts again at (0, m).
C17_SetIteration ==
    [][ /\ (last'.op = "__iter__" /\ IsSet(gen'.self)) =>
               /\ gen'.pc = "start"
               /\ GenYield(gen') = PyModulo(Element(0, gen'.self.modulus))
        /\ (Resumed /\ IsSet(gen.self)) =>
               /\ gen.pc = "start" =>
                      last'.ret = PyModulo(Element(0, gen.self.modulus))
               /\ gen.pc = "range" =>
                      /\ last.op = "__next__" /\ IsModulo(last.ret)
                      /\ last.ret.inst.modulus = gen.self.modulus
                      /\ Res(last.ret.inst) + 1 = gen.k
                      /\ IF Res(last.ret.inst) + 1 < gen.self.modulus
                         THEN last'.ret = PyModulo(Element(Res(last.ret.inst) + 1,
                                                           gen.self.modulus))
                         ELSE /\ last'.ret = Raise(StopIteration)
                              /\ gen'.pc = "done"
                              /\ PyInt(gen'.k) = __len__(gen.self)
                              /\ gen'.k = gen.self.modulus
               /\ gen.pc = "done" => last'.ret = Raise(StopIteration)
               /\ gen'.pc \in {"range", "done"}
      ]_vars

\* The iteration of a set of modulus > 2 has ended after as many values as the
\* modulus.
C17_Witness ==
    /\ gen.pc = "done" /\ IsSet(gen.self) /\ gen.self.modulus > 2
    /\ gen.k = gen.self.modulus
    /\ last.op = "__next__" /\ last.ret = Raise(StopIteration)

\* C18: iterating an element (r, m) never ends and never yields an instance: the
\* k-th value (k = 0, 1, ...) is the integer r + k*m, each value m more than the
\* one before, a member of the class and equal to self[k]; the generator never
\* reaches the loop over the classes of a set.
C18_ElementIteration ==
    [][ (Resumed /\ IsElement(gen.self)) =>
            /\ last'.ret.type = "int"
            /\ gen'.pc = "member"
            /\ gen.pc \in {"start", "member"}
            /\ gen.pc = "start" => last'.ret = PyInt(Res(gen.self))
            /\ gen.pc = "member" =>
                   /\ last.op = "__next__" /\ last.ret.type = "int"
                   /\ last'.ret.val = last.ret.val + gen.self.modulus
                   /\ last'.ret.val > last.ret.val
            /\ last'.ret.val = Res(gen.self) + gen.k * gen.self.modulus
            /\ last'.ret.val % gen.self.modulus = Res(gen.self)
            /\ IsTrue(__contains__(gen.self, last'.ret))
            /\ last'.ret = __getitem__(gen.self, PyInt(gen.k))
      ]_vars

\* The third value of the iteration of a class of residue > 0 and modulus > 1
\* was produced.
C18_Witness ==
    /\ gen.pc = "member" /\ IsElement(gen.self)
    /\ Res(gen.self) > 0 /\ gen.self.modulus > 1
    /\ gen.k = 3
    /\ last.op = "__next__" /\ last.ret = PyInt(Res(gen.self) + 2 * gen.self.modulus)

\* The last call was made on an instance with one more argument.
OnInstance(op) == last.op = op /\ Len(last.args) = 2 /\ IsModulo(last.args[1])

\* C19: for an integer i of any sign, indexing a set of modulus m returns the
\* element (i mod m, m), and indexing an element (r, m) returns the integer
\* r + i*m as it is, negative when i < 0; an index that is no integer raises
\* TypeError('index must be an integer').
C19_Indexing ==
    OnInstance("__getitem__") =>
        /\ (Other.type = "int" /\ IsSet(Self)) =>
               last.ret = PyModulo(Element(Other.val % Self.modulus, Self.modulus))
        /\ (Other.type = "int" /\ IsElement(Self)) =>
               /\ last.ret = PyInt(Res(Self) + Other.val * Self.modulus)
               /\ Other.val < 0 => last.ret.val < 0
        /\ Other.type # "int" => last.ret = Raise(InvalidIndexType)

\* A class of residue > 0 was indexed with a negative integer and a negative
\* integer was returned.
C19_Witness ==
    /\ OnInstance("__getitem__") /\ IsElement(Self) /\ Res(Self) > 0
    /\ Other.type = "int" /\ Other.val < 0 - 1
    /\ last.ret.type = "int" /\ last.ret.val < 0 - Self.modulus

\* C20: for an element a = (r, m) and an integer k, a / k returns (r/k, m/k)
\* exactly when k > 0 divides both r and m (r = 0 is divisible); for every other
\* integer k, k <= 0 included, it raises the not-divisible error; on a set it
\* raises ValueError('can only transform a congruence class'); a result has
\* 0 <= r/k < m/k.
C20_ScaledTransform ==
    OnInstance("__truediv__") =>
        /\ IsSet(Self) => last.ret = Raise(CanOnlyTransform)
        /\ (IsElement(Self) /\ Other.type = "int") =>
               IF Other.val > 0 /\ Divides(Other.val, Res(Self))
                                /\ Divides(Other.val, Self.modulus)
               THEN /\ last.ret = PyModulo(Element(Res(Self) \div Other.val,
                                                   Self.modulus \div Other.val))
                    /\ Res(last.ret.inst) * Other.val = Res(Self)
                    /\ last.ret.inst.modulus * Other.val = Self.modulus
                    /\ 0 <= Res(last.ret.inst)
                    /\ Res(last.ret.inst) < last.ret.inst.modulus
               ELSE last.ret = Raise(NotDivisible)

\* A class of residue > 0 was divided by a factor > 1 smaller than its modulus.
C20_Witness ==
    /\ OnInstance("__truediv__") /\ IsElement(Self) /\ Res(Self) > 0
    /\ Other.type = "int" /\ Other.val > 1 /\ Other.val < Self.modulus
    /\ IsModulo(last.ret) /\ Res(last.ret.inst) > 0

\* The last call was a binary arithmetic operator made on a set, the reflected
\* forms with an integer as the left operand.
ArithmeticOnSet ==
    /\ last.op \in {"__add__", "__radd__", "__sub__", "__rsub__",
                    "__mul__", "__rmul__", "__floordiv__"}
    /\ Len(last.args) = 2 /\ IsModulo(last.args[1]) /\ IsSet(Self)
    /\ last.op \in {"__radd__", "__rsub__", "__rmul__"} => Other.type = "int"

\* C21 as stated: every binary arithmetic operator (add, sub, mul, floor
\* division and the reflected forms with an integer on the left) called on a
\* set raises and returns no instance.
C21_SetSelfRaises ==
    ArithmeticOnSet => (Raised(last.ret) /\ ~IsModulo(last.ret))

\* C21 amended: add, sub, mul, floor division, reflected sub and reflected mul
\* called on a set raise TypeError('expecting a congruence class or integer')
\* and return no instance; reflected add with an integer n on the left returns
\* the element (n mod m, m) of the set's modulus m.
C21_SetSelfRaisesButRadd ==
    ArithmeticOnSet =>
        IF last.op = "__radd__"
        THEN last.ret = PyModulo(Element(Other.val % Self.modulus, Self.modulus))
        ELSE last.ret = Raise(ExpectedElementOrInteger)

\* A negative integer was added from the left to a set of modulus > 2 and an
\* element of residue > 0 was returned.
C21_Witness ==
    /\ ArithmeticOnSet /\ last.op = "__radd__"
    /\ Other.val < 0 /\ Self.modulus > 2
    /\ IsModulo(last.ret) /\ Res(last.ret.inst) > 0

\* The instances among the arguments of the call the step makes.
Operands == Insts(last'.args)
\* The number of instances the step returns.
Results == IF IsModulo(last'.ret) THEN 1 ELSE 0

OtherResidue == OtherInt % Self.modulus

\* C23: for an element a = (ra, m) and b an element (rb, m) or an integer rb
\* with gcd(rb mod m, m) = 1, a // b returns (ra * inverse(rb) mod m, m), so that
\* (a // b) * b == a and a // b == a * ~b; with gcd(rb mod m, m) > 1 it raises
\* the no-inverse error, also when some x with x * b == a exists.
C23_Division ==
    (last.op = "__floordiv__" /\ SelfIsElement /\ OtherIsPeerOrInt) =>
        IF Coprime(OtherResidue, Self.modulus)
        THEN /\ IsModulo(last.ret) /\ IsElement(last.ret.inst)
             /\ last.ret.inst.modulus = Self.modulus
             /\ (Res(last.ret.inst) * OtherResidue) % Self.modulus = Res(Self)
             /\ IsTrue(__eq__(__mul__(last.ret.inst, Other).inst, PyModulo(Self)))
             /\ IsTrue(__eq__(last.ret.inst,
                              __mul__(Self, __invert__(Element(OtherResidue, Self.modulus)))))
        ELSE last.ret = Raise(NoInverse)

\* A division by a zero divisor raised although a quotient exists: x * b == a
\* for some element x.
C23_Witness ==
    /\ last.op = "__floordiv__" /\ SelfIsElement /\ OtherIsPeer
    /\ Res(Self) > Res(Other.inst) /\ Res(Other.inst) > 1
    /\ \E x \in 0..(Self.modulus - 1) : (x * Res(Other.inst)) % Self.modulus = Res(Self)
    /\ last.ret = Raise(NoInverse)

\* The last call was an exponentiation of an element.
Exponentiated == last.op = "__pow__" /\ Len(last.args) = 3 /\ SelfIsElement
\* The exponent is an integer or an instance.
ExponentTyped == Other.type = "int" \/ IsModulo(Other)

\* C24: in a ** x the exponent x may be an element (e, n) of any modulus n, and
\* the result is a ** e for the integer e; a third argument is accepted only
\* when it equals a's modulus and otherwise raises ValueError('modulus does not
\* match congruence class modulus'), before any test of invertibility; an
\* exponent that is neither an integer nor an instance raises
\* TypeError('exponent must be an integer or congruence class').
C24_PowArguments ==
    Exponentiated =>
        /\ (IsModulo(Other) /\ IsElement(Other.inst) /\ last.args[3] = PyNone) =>
               /\ Returned(Power(Res(Self), Res(Other.inst)), Self.modulus)
               /\ last.ret = __pow__(Self, PyInt(Res(Other.inst)), PyNone)
        /\ (ExponentTyped /\ last.args[3] # PyNone /\ last.args[3] # PyInt(Self.modulus)) =>
               last.ret = Raise(PowModulusMismatch)
        /\ (ExponentTyped /\ last.args[3] = PyInt(Self.modulus)) =>
               last.ret = __pow__(Self, Other, PyNone)
        /\ ~ExponentTyped => last.ret = Raise(InvalidExponentType)

\* An element was raised to an element of another modulus, of residue > 1.
C24_Witness ==
    /\ Exponentiated /\ IsModulo(Other) /\ IsElement(Other.inst)
    /\ Other.inst.modulus # Self.modulus /\ Res(Other.inst) > 1
    /\ Res(Self) > 1
    /\ IsModulo(last.ret) /\ Res(last.ret.inst) # Res(Self)

\* C25: for an element a = (r, m) and an integer n, a % n returns the element
\* (r mod n, n) when n > 0 and raises ValueError('modulus must be a positive
\* integer') when n <= 0; on a set it raises; n % s for a set s of modulus m
\* returns (n mod m, m), and n % a for an element a raises ValueError('expecting
\* a set of congruence classes as the second argument').
C25_Rebind ==
    /\ OnInstance("__mod__") =>
           /\ IsSet(Self) => last.ret = Raise(RebindOnSet)
           /\ (IsElement(Self) /\ Other.type = "int" /\ Other.val > 0) =>
                  last.ret = PyModulo(Element(Res(Self) % Other.val, Other.val))
           /\ (IsElement(Self) /\ Other.type = "int" /\ Other.val <= 0) =>
                  last.ret = Raise(InvalidModulus)
    /\ OnInstance("__rmod__") =>
           /\ (IsSet(Self) /\ Other.type = "int") =>
                  last.ret = PyModulo(Element(Other.val % Self.modulus, Self.modulus))
           /\ IsElement(Self) => last.ret = Raise(ExpectedSet)

\* An element was rebound to a modulus > 1 smaller than its residue.
C25_Witness ==
    /\ OnInstance("__mod__") /\ IsElement(Self)
    /\ Other.type = "int" /\ Other.val > 1 /\ Other.val < Res(Self)
    /\ IsModulo(last.ret) /\ Res(last.ret.inst) > 0

\* The last call was add, sub, mul or floor division made on an element.
Coerced ==
    /\ last.op \in {"__add__", "__sub__", "__mul__", "__floordiv__"}
    /\ Len(last.args) = 2 /\ SelfIsElement

\* C26: the coercion of the right operand of add, sub, mul and floor division
\* against an element self returns an element of self's modulus as it is, turns
\* an integer v into (v mod m, m), raises ValueError('congruence classes do not
\* have the same modulus') for an element of another modulus, raises TypeError
\* for a set, of whatever modulus, and for a value of any other type; when the
\* coercion raises, the operator raises the same and returns no instance.
C26_Coercion ==
    Coerced =>
        /\ OtherIsPeer => _cc(Self, Other) = Other
        /\ Other.type = "int" =>
               _cc(Self, Other) = PyModulo(Element(Other.val % Self.modulus, Self.modulus))
        /\ (IsModulo(Other) /\ IsElement(Other.inst)
                /\ Other.inst.modulus # Self.modulus) =>
               /\ _cc(Self, Other) = Raise(ModulusMismatch)
               /\ last.ret = Raise(ModulusMismatch)
        /\ (IsModulo(Other) /\ IsSet(Other.inst)) =>
               /\ _cc(Self, Other) = Raise(ExpectedElementOrInteger)
               /\ last.ret = Raise(ExpectedElementOrInteger)
        /\ (~IsModulo(Other) /\ Other.type # "int") =>
               /\ _cc(Self, Other) = Raise(ExpectedElementOrInteger)
               /\ last.ret = Raise(ExpectedElementOrInteger)
        /\ (OtherIsPeer \/ Other.type = "int") =>
               (IsModulo(last.ret) \/ last.ret = Raise(NoInverse))

\* An element was multiplied by a set of another modulus: the type error was
\* raised, not the modulus error.
C26_Witness ==
    /\ Coerced /\ last.op = "__mul__"
    /\ IsModulo(Other) /\ IsSet(Other.inst) /\ Other.inst.modulus # Self.modulus
    /\ last.ret = Raise(ExpectedElementOrInteger)

\* The transform of (m2 mod m1, m1) by g = gcd(m1, m2) that a & b makes for
\* a of modulus m1 and b of modulus m2.
Transformed(m1, m2) == __truediv__(Element(m2 % m1, m1), PyInt(Gcd(m1, m2)))

\* C27: for two elements a = (r1, m1) and b = (r2, m2), a & b never raises: the
\* transforms of (m2 mod m1, m1) and (m1 mod m2, m2) by g = gcd(m1, m2) return
\* instances, the inversions of both return instances, and a & b is an element
\* or None.
C27_IntersectionTotal ==
    Intersected =>
        /\ IsModulo(Transformed(Self.modulus, Other.inst.modulus))
        /\ IsModulo(Transformed(Other.inst.modulus, Self.modulus))
        /\ IsModulo(__invert__(Transformed(Self.modulus, Other.inst.modulus).inst))
        /\ IsModulo(__invert__(Transformed(Other.inst.modulus, Self.modulus).inst))
        /\ \/ IsModulo(last.ret) /\ IsElement(last.ret.inst)
           \/ last.ret = PyNone

\* A class was intersected with a class of a proper multiple of its modulus, and
\* an element was returned.
C27_Witness ==
    /\ Intersected /\ IsModulo(last.ret)
    /\ Self.modulus > 1 /\ Self.modulus < Other.inst.modulus
    /\ Divides(Self.modulus, Other.inst.modulus)
    /\ Res(Other.inst) > Res(Self)

\* b & a for the operands a and b of the last call.
Swapped == __and__(Other.inst, PyModulo(Self))

\* C28: on elements the intersection is commutative and idempotent: a & b and
\* b & a are both None or are equal instances, of one residue and one modulus,
\* and a & a == a.
C28_IntersectionSymmetric ==
    Intersected =>
        /\ \/ last.ret = PyNone /\ Swapped = PyNone
           \/ /\ IsModulo(last.ret) /\ IsModulo(Swapped)
              /\ IsTrue(__eq__(last.ret.inst, Swapped))
              /\ Res(last.ret.inst) = Res(Swapped.inst)
              /\ last.ret.inst.modulus = Swapped.inst.modulus
        /\ Other.inst = Self =>
               /\ IsModulo(last.ret)
               /\ IsTrue(__eq__(last.ret.inst, PyModulo(Self)))

\* Two classes of different moduli and different residues were intersected and
\* the element returned has neither operand's residue.
C28_Witness ==
    /\ Intersected /\ IsModulo(last.ret)
    /\ Self.modulus # Other.inst.modulus /\ Res(Self) # Res(Other.inst)
    /\ Res(last.ret.inst) # Res(Self) /\ Res(last.ret.inst) # Res(Other.inst)
    /\ IsModulo(Swapped)

\* C29: when a & b returns an instance c for elements a and b, c.issubset(a)
\* and c.issubset(b) are True; and when b's modulus divides a's modulus,
\* a.issubset(b) being True implies a & b == a.
C29_IntersectionSubset ==
    Intersected =>
        /\ IsModulo(last.ret) =>
               /\ IsTrue(issubset(last.ret.inst, PyModulo(Self)))
               /\ IsTrue(issubset(last.ret.inst, Other))
        /\ (IsTrue(issubset(Self, Other)) /\ Divides(Other.inst.modulus, Self.modulus)) =>
               /\ IsModulo(last.ret)
               /\ IsTrue(__eq__(last.ret.inst, PyModulo(Self)))

\* The intersection of two classes, neither modulus dividing the other, has a
\* modulus larger than both.
C29_Witness ==
    /\ Intersected /\ IsModulo(last.ret)
    /\ last.ret.inst.modulus > Self.modulus
    /\ last.ret.inst.modulus > Other.inst.modulus
    /\ Res(last.ret.inst) >= Self.modulus
    /\ IsTrue(issubset(last.ret.inst, Other))

\* a ** e for the element a the last call was made on.
SelfPow(e) == __pow__(Self, PyInt(e), PyNone)

\* C30: for an element a and integers e1, e2 >= 0, a ** (e1 + e2) ==
\* (a ** e1) * (a ** e2); for a = (r, m) with gcd(r, m) = 1 the same holds for
\* integers e1, e2 of any sign.
C30_ExponentLaw ==
    (last.op = "__pow__" /\ SelfIsElement /\ Other.type = "int" /\ last.args[3] = PyNone) =>
        \A e2 \in Exponents :
            ((Other.val >= 0 /\ e2 >= 0) \/ Coprime(Res(Self), Self.modulus)) =>
                /\ IsModulo(last.ret) /\ IsModulo(SelfPow(e2))
                /\ IsModulo(SelfPow(Other.val + e2))
                /\ IsTrue(__eq__(SelfPow(Other.val + e2).inst,
                                 __mul__(last.ret.inst, SelfPow(e2))))
                /\ Res(SelfPow(Other.val + e2).inst)
                       = (Res(last.ret.inst) * Res(SelfPow(e2).inst)) % Self.modulus

\* An element of residue > 1 that is not its own inverse was raised to an
\* exponent < -1.
C30_Witness ==
    /\ last.op = "__pow__" /\ SelfIsElement /\ Other.type = "int" /\ Other.val < 0 - 1
    /\ last.args[3] = PyNone
    /\ Res(Self) > 1 /\ IsModulo(last.ret)
    /\ IsModulo(SelfPow(0 - 1)) /\ Res(SelfPow(0 - 1).inst) # Res(Self)
    /\ Res(last.ret.inst) # 1

====
